---- MODULE Spec2Model ----
(***************************************************************************)
(* bkmap: a BK-tree map (BKMap / BKNode), its radius search iterator       *)
(* (BKFuzzy) and the Levenshtein metric (LevenshteinMetric), modelled from *)
(* src/src/lib.rs.                                                         *)
(*                                                                         *)
(* Keys and queries are sequences of small positive integers (the bytes of *)
(* a string).  Option<T> is modelled as a sequence of length 0 (None) or 1 *)
(* (Some).  The tree is held in an arena: nodes[i] is a BKNode, its        *)
(* children field lists arena indices; the root, when present, is node 1.  *)
(***************************************************************************)
EXTENDS Integers, Sequences, FiniteSets, TLC

\* ------------------------------------------------------------------ bounds

\* Keys of the map and queries are the sequences over 1..AlphabetSize of
\* length at most MaxKeyLen.
AlphabetSize == 2
MaxKeyLen == 2
\* Values are 1..MaxVal.
MaxVal == 2
\* At most MaxInserts insertion calls are made on one map.
MaxInserts == 3
\* Two searches at once are made on maps of at most MaxTwoInserts insertion
\* calls.
MaxTwoInserts == 2
\* Search radii are 0..MaxRadius and usize::MAX.
MaxRadius == 1
\* Inputs of the stand-alone metric are all sequences over 1..AlphabetSize of
\* length at most MaxStrLen, and the named examples below.
MaxStrLen == 3
\* usize is modelled UsizeBits wide.
UsizeBits == 16

UsizeMax == 2^UsizeBits - 1

None == <<>>
Some(x) == <<x>>

Min(x, y) == IF x <= y THEN x ELSE y

SeqsUpTo(n, S) == UNION {[1..m -> S] : m \in 0..n}

Alphabet == 1..AlphabetSize
Keys == SeqsUpTo(MaxKeyLen, Alphabet)
Values == 1..MaxVal
Radii == (0..MaxRadius) \cup {UsizeMax}

\* "abc", "kitten" and "sitting", letters numbered a = 1 .. z = 26.
StrAbc == <<1, 2, 3>>
StrKitten == <<11, 9, 20, 20, 5, 14>>
StrSitting == <<19, 9, 20, 20, 9, 14, 7>>
Strs == SeqsUpTo(MaxStrLen, Alphabet) \cup {StrAbc, StrKitten, StrSitting}

\* ------------------------------------------------------- LevenshteinMetric

\* Levenshtein::build: a metric with an empty cache.
LevBuild == <<>>

\* self.cache.clear(); the variant leaves the cache as it is.
CacheClearKeep(cache) == cache
CacheClear(cache) == <<>>

\* self.cache.extend(1..=n); the variant fills in 2, 4, ..., the cost of
\* insertions at 2 each.
CacheExtendDouble(cache, n) == cache \o [j \in 1..n |-> 2 * j]
CacheExtend(cache, n) == cache \o [j \in 1..n |-> j]

\* One step of the inner loop body, for element x of a against element y of
\* b and the cache cell c: the new result.  One variant charges 2 for the
\* step from the cache cell; the other charges a substitution for equal
\* elements too.
LevCellDearDelete(last, x, y, c, result) ==
    Min(Min(last + (IF x # y THEN 1 ELSE 0), c + 2), result + 1)
LevCellNoDiag(last, x, y, c, result) ==
    Min(Min(last + 1, c + 1), result + 1)
LevCell(last, x, y, c, result) ==
    Min(Min(last + (IF x # y THEN 1 ELSE 0), c + 1), result + 1)

\* The inner loop `for (b, cache) in b.iter().zip(&mut self.cache)` from
\* position j on: zip stops at the shorter of b and the cache.
RECURSIVE LevInner(_, _, _, _, _, _)
LevInner(x, b, cache, j, last, result) ==
    IF j > Len(b) \/ j > Len(cache)
    THEN [cache |-> cache, result |-> result]
    ELSE LET r == LevCell(last, x, b[j], cache[j], result)
         IN  LevInner(x, b, [cache EXCEPT ![j] = r], j + 1, cache[j], r)

\* The outer loop `for (mut last, a) in a.iter().enumerate()` from the
\* 1-based position i on (enumerate's index is i - 1).
RECURSIVE LevOuter(_, _, _, _, _)
LevOuter(a, b, cache, i, result) ==
    IF i > Len(a)
    THEN [cache |-> cache, result |-> result]
    ELSE LET row == LevInner(a[i], b, cache, 1, i - 1, (i - 1) + 1)
         IN  LevOuter(a, b, row.cache, i + 1, row.result)

\* LevenshteinMetric::distance(&mut self, a, b): the returned distance and
\* the cache the call leaves behind.
LevDistance(cache, a, b) ==
    LevOuter(a, b, CacheExtend(CacheClear(cache), Len(b)), 1, Len(b))

\* ------------------------------------------------------------------ Metric

\* A caller-supplied implementation of the Metric trait over the same keys:
\* the difference of the lengths.  It is symmetric and satisfies the
\* triangle inequality, and it is 0 between distinct keys of equal length.
LenDiffDistance(a, b) ==
    IF Len(a) >= Len(b) THEN Len(a) - Len(b) ELSE Len(b) - Len(a)

\* A caller-supplied implementation of the Metric trait that is not a
\* metric: 0 between equal keys and otherwise a number that grows with the
\* length of the first key only, so that it is not symmetric.
SkewedDistance(a, b) == IF a = b THEN 0 ELSE 1 + 2 * Len(a)

\* The BuildMetric implementations a map is built with.
MetricKinds == {"Levenshtein", "LenDiff"}

\* Another one: 0 between equal keys and otherwise 1 more than the square of
\* the difference of the lengths, which is symmetric and breaks the triangle
\* inequality.
SquaredDistance(a, b) ==
    IF a = b THEN 0
    ELSE 1 + LenDiffDistance(a, b) * LenDiffDistance(a, b)

\* The BuildMetric implementations that build no metric.
SkewedKinds == {"Skewed", "Squared"}

\* BuildMetric::build: the state of a freshly built metric.
Build(kind) == IF kind = "Levenshtein" THEN LevBuild ELSE <<>>

\* Metric::distance(&mut self, a, b) on a metric of the given kind in state
\* m: the returned distance and the state the call leaves behind.
Distance(kind, m, a, b) ==
    IF kind = "Levenshtein"
    THEN LET r == LevDistance(m, a, b)
         IN  [metric |-> r.cache, result |-> r.result]
    ELSE IF kind = "LenDiff"
    THEN [metric |-> m, result |-> LenDiffDistance(a, b)]
    ELSE IF kind = "Skewed"
    THEN [metric |-> m, result |-> SkewedDistance(a, b)]
    ELSE [metric |-> m, result |-> SquaredDistance(a, b)]

\* ------------------------------------------------------------------ BKNode

\* struct BKNode { dist, key, value, children }; cap is the capacity of the
\* children vector.
BKNode(dist, key, value) ==
    [dist |-> dist, key |-> key, value |-> value, children |-> <<>>, cap |-> 0]

RECURSIVE SumOver(_, _)
SumOver(f, s) == IF s = <<>> THEN 0 ELSE f[Head(s)] + SumOver(f, Tail(s))

\* BKNode::len, for every node of the arena ns at once: a node's children
\* have larger indices than the node, so the table is filled from the end.
\* The variant NodeLenShallow counts a node and its children only.
RECURSIVE NodeLenTable(_, _, _)
NodeLenTable(ns, i, acc) ==
    IF i = 0 THEN acc
    ELSE NodeLenTable(ns, i - 1,
                      [acc EXCEPT ![i] = SumOver(acc, ns[i].children) + 1])

NodeLenShallow(ns, i) == Len(ns[i].children) + 1
NodeLen(ns, i) == NodeLenTable(ns, Len(ns), [j \in 1..Len(ns) |-> 0])[i]

\* BKNode::capacity, likewise.
RECURSIVE NodeCapacityTable(_, _, _)
NodeCapacityTable(ns, i, acc) ==
    IF i = 0 THEN acc
    ELSE NodeCapacityTable(ns, i - 1,
                           [acc EXCEPT ![i] = SumOver(acc, ns[i].children) + ns[i].cap])

NodeCapacity(ns, i) ==
    NodeCapacityTable(ns, Len(ns), [j \in 1..Len(ns) |-> 0])[i]

\* usize::saturating_sub and usize::saturating_add; the variant of the
\* former wraps around.
WrappingSub(x, y) == (x - y) % (UsizeMax + 1)
SaturatingSub(x, y) == IF y >= x THEN 0 ELSE x - y
WrappingAdd(x, y) == (x + y) % (UsizeMax + 1)
SaturatingAdd(x, y) == IF x >= UsizeMax - y THEN UsizeMax ELSE x + y

\* Iterator::skip_while over a list of node indices; the variant also skips
\* the children at the lower end of the interval.
RECURSIVE SkipWhileAtMost(_, _, _)
SkipWhileAtMost(ns, s, lo) ==
    IF s = <<>> THEN <<>>
    ELSE IF ns[Head(s)].dist <= lo THEN SkipWhileAtMost(ns, Tail(s), lo)
    ELSE s

RECURSIVE SkipWhileBelow(_, _, _)
SkipWhileBelow(ns, s, lo) ==
    IF s = <<>> THEN <<>>
    ELSE IF ns[Head(s)].dist < lo THEN SkipWhileBelow(ns, Tail(s), lo)
    ELSE s

\* Iterator::take_while over a list of node indices; the variant stops one
\* edge distance early.
RECURSIVE TakeWhileBelow(_, _, _)
TakeWhileBelow(ns, s, hi) ==
    IF s = <<>> THEN <<>>
    ELSE IF ns[Head(s)].dist < hi
         THEN <<Head(s)>> \o TakeWhileBelow(ns, Tail(s), hi)
    ELSE <<>>

RECURSIVE TakeWhileAtMost(_, _, _)
TakeWhileAtMost(ns, s, hi) ==
    IF s = <<>> THEN <<>>
    ELSE IF ns[Head(s)].dist <= hi
         THEN <<Head(s)>> \o TakeWhileAtMost(ns, Tail(s), hi)
    ELSE <<>>

\* BKNode::children_around(dist, radius) of node i
ChildrenAround(ns, i, dist, radius) ==
    TakeWhileAtMost(ns,
                    SkipWhileBelow(ns, ns[i].children, SaturatingSub(dist, radius)),
                    SaturatingAdd(dist, radius))

\* ------------------------------------------------------- modify callbacks

\* The closure BKMap::insert passes to insert_or_modify: |old, new| *old = new
InsertClosure(old, new) == new

\* A caller's merge closure for insert_or_modify, adding the incoming value
\* to the stored one: |old, new| *old = (*old + new).min(MaxVal)
SumClosure(old, new) == Min(old + new, MaxVal)

\* A caller's combine closure for insert_and_modify, counting the insertions
\* of a key: a new entry starts at 1 whatever value came with it, a stored
\* one is incremented.
CountClosure(old, other) ==
    IF other = None THEN 1 ELSE Min(old + 1, MaxVal)

\* The closure insert_or_modify passes to insert_and_modify around the merge
\* closure f: f is called only when other is Some.  merges lists the calls
\* of f as <<old, new>>.  The variant calls f whatever other is.
OrModifyNoGuard(f, old, other) ==
    LET new == IF other = None THEN old ELSE other[1]
    IN  [value |-> IF f = "insert" THEN InsertClosure(old, new)
                   ELSE SumClosure(old, new),
         merges |-> <<<<old, new>>>>]
OrModifyClosure(f, old, other) ==
    IF other # None
    THEN [value |-> IF f = "insert" THEN InsertClosure(old, other[1])
                    ELSE SumClosure(old, other[1]),
          merges |-> <<<<old, other[1]>>>>]
    ELSE [value |-> old, merges |-> <<>>]

\* The modify closures insert_and_modify is called with: the one that
\* insert builds, the one insert_or_modify builds around a caller's merge,
\* and a caller's own.
Modifies ==
    {[op |-> "insert", f |-> "insert"],
     [op |-> "insert_or_modify", f |-> "sum"],
     [op |-> "insert_and_modify", f |-> "count"]}

\* The modify closure of each of the three insertion operations.
ModifyOf(op) == CHOOSE c \in Modifies : c.op = op

\* modify(&mut subject, other): the subject afterwards, and the merge calls.
Modify(c, subject, other) ==
    IF c.op = "insert_and_modify"
    THEN [value |-> CountClosure(subject, other), merges |-> <<>>]
    ELSE OrModifyClosure(c.f, subject, other)

\* One entry of the record of modify calls made by an insertion: the subject
\* before and after, the other argument, and the node the subject is stored
\* in when the insertion returns.
ModifyCall(before, other, r, node) ==
    [before |-> before, other |-> other, after |-> r.value, node |-> node,
     merges |-> r.merges]

\* ------------------------------------------------- BKMap::insert_and_modify

\* node.children.iter().position(|child| child.dist >= dist), 1-based, from
\* position p on; None when there is no such child.  The variant looks for
\* a child with child.dist > dist.
RECURSIVE PositionAfter(_, _, _, _)
PositionAfter(ns, children, dist, p) ==
    IF p > Len(children) THEN None
    ELSE IF ns[children[p]].dist > dist THEN Some(p)
    ELSE PositionAfter(ns, children, dist, p + 1)

RECURSIVE Position(_, _, _, _)
Position(ns, children, dist, p) ==
    IF p > Len(children) THEN None
    ELSE IF ns[children[p]].dist >= dist THEN Some(p)
    ELSE Position(ns, children, dist, p + 1)

\* The loop of insert_and_modify from node on, with the map's metric in
\* state m: where it ends.  found: the key is at distance 0 from node.
\* Otherwise a leaf with edge distance dist goes into node's children at
\* position at.  One variant descends into the child found whatever its
\* edge distance; the other never descends into a child.
RECURSIVE WalkNoFilter(_, _, _, _, _)
WalkNoFilter(ns, kind, m, key, node) ==
    LET d == Distance(kind, m, key, ns[node].key)
        child == Position(ns, ns[node].children, d.result, 1)
    IN  IF d.result = 0
        THEN [found |-> TRUE, node |-> node, metric |-> d.metric]
        ELSE IF child # None
        THEN WalkNoFilter(ns, kind, d.metric, key, ns[node].children[child[1]])
        ELSE [found |-> FALSE, node |-> node, metric |-> d.metric,
              dist |-> d.result,
              at |-> Len(ns[node].children) + 1]

WalkAlways(ns, kind, m, key, node) ==
    LET d == Distance(kind, m, key, ns[node].key)
        child == Position(ns, ns[node].children, d.result, 1)
    IN  IF d.result = 0
        THEN [found |-> TRUE, node |-> node, metric |-> d.metric]
        ELSE [found |-> FALSE, node |-> node, metric |-> d.metric,
              dist |-> d.result,
              at |-> IF child = None THEN Len(ns[node].children) + 1
                     ELSE child[1]]

RECURSIVE Walk(_, _, _, _, _)
Walk(ns, kind, m, key, node) ==
    LET d == Distance(kind, m, key, ns[node].key)
        child == Position(ns, ns[node].children, d.result, 1)
    IN  IF d.result = 0
        THEN [found |-> TRUE, node |-> node, metric |-> d.metric]
        ELSE IF child # None /\ ns[ns[node].children[child[1]]].dist = d.result
        THEN Walk(ns, kind, d.metric, key, ns[node].children[child[1]])
        ELSE [found |-> FALSE, node |-> node, metric |-> d.metric,
              dist |-> d.result,
              at |-> IF child = None THEN Len(ns[node].children) + 1
                     ELSE child[1]]

\* The capacity of a vector of length len and capacity cap after one more
\* element is inserted: alloc's amortized growth, to at least 4 elements.
GrownCap(len, cap) ==
    IF len < cap THEN cap
    ELSE LET want == IF 2 * cap >= len + 1 THEN 2 * cap ELSE len + 1
         IN  IF want >= 4 THEN want ELSE 4

\* Vec::insert(at, x) on a sequence; the variant overwrites the element at
\* position at.
VecReplace(s, at, x) == SubSeq(s, 1, at - 1) \o <<x>> \o SubSeq(s, at + 1, Len(s))
VecInsert(s, at, x) == SubSeq(s, 1, at - 1) \o <<x>> \o SubSeq(s, at, Len(s))

\* BKMap::insert_and_modify(key, value, modify) on the arena ns with the
\* map's metric in state m: the arena and the metric afterwards, and the
\* modify calls made.
InsertAndModify(ns, kind, m, key, value, c) ==
    IF ns = <<>>
    THEN LET r == Modify(c, value, None)
         IN  [nodes |-> <<BKNode(1, key, r.value)>>, metric |-> m,
              calls |-> <<ModifyCall(value, None, r, 1)>>]
    ELSE LET w == Walk(ns, kind, m, key, 1)
         IN  IF w.found
             THEN LET r == Modify(c, ns[w.node].value, Some(value))
                  IN  [nodes |-> [ns EXCEPT ![w.node].value = r.value],
                       metric |-> w.metric,
                       calls |-> <<ModifyCall(ns[w.node].value, Some(value), r, w.node)>>]
             ELSE LET r == Modify(c, value, None)
                      new == Len(ns) + 1
                      p == ns[w.node]
                  IN  [nodes |-> Append([ns EXCEPT ![w.node] =
                                            [p EXCEPT !.children = VecInsert(p.children, w.at, new),
                                                      !.cap = GrownCap(Len(p.children), p.cap)]],
                                        BKNode(w.dist, key, r.value)),
                       metric |-> w.metric,
                       calls |-> <<ModifyCall(value, None, r, new)>>]

\* ------------------------------------------------------------------ BKFuzzy

\* struct BKFuzzy { metric, stack, key, distance }
BKFuzzy(m, stack, key, distance) ==
    [metric |-> m, stack |-> stack, key |-> key, distance |-> distance]

\* The item (dist, &node.key, &node.value) that next returns for node.  The
\* variant reports the node's edge distance.
ItemWithEdge(ns, dist, node) ==
    [dist |-> ns[node].dist, node |-> node, key |-> ns[node].key,
     value |-> ns[node].value]
Item(ns, dist, node) ==
    [dist |-> dist, node |-> node, key |-> ns[node].key, value |-> ns[node].value]

\* Vec::pop takes the last element.
StackTop(stack) == stack[Len(stack)]
StackPop(stack) == SubSeq(stack, 1, Len(stack) - 1)

\* `dist <= self.distance`: the node is reported.  The variant compares
\* with <.
WithinStrict(dist, distance) == dist < distance
Within(dist, distance) == dist <= distance

\* BKFuzzy::next on the search f: the search afterwards, the returned
\* Option<Item>, and the nodes the call popped, each with its distance and
\* the children it pushed.
RECURSIVE FuzzyNextOf(_, _, _)
FuzzyNextOf(ns, kind, f) ==
    IF f.stack = <<>>
    THEN [fuzzy |-> f, item |-> None, visits |-> <<>>]
    ELSE LET node == StackTop(f.stack)
             d == Distance(kind, f.metric, f.key, ns[node].key)
             pushed == ChildrenAround(ns, node, d.result, f.distance)
             g == [f EXCEPT !.metric = d.metric,
                            !.stack = StackPop(f.stack) \o pushed]
             v == [node |-> node, dist |-> d.result, pushed |-> pushed]
         IN  IF Within(d.result, f.distance)
             THEN [fuzzy |-> g, item |-> Some(Item(ns, d.result, node)),
                   visits |-> <<v>>]
             ELSE LET r == FuzzyNextOf(ns, kind, g)
                  IN  [r EXCEPT !.visits = <<v>> \o r.visits]

\* Iterator::collect on the search f: the items of every next call up to
\* the first None.
RECURSIVE Collect(_, _, _)
Collect(ns, kind, f) ==
    LET r == FuzzyNextOf(ns, kind, f)
    IN  IF r.item = None THEN <<>>
        ELSE r.item \o Collect(ns, kind, r.fuzzy)

\* BKMap::fuzzy_search_distance(key, distance) on the arena ns; the variant
\* puts the root on the stack twice.
FuzzySearchDistanceTwice(ns, kind, key, distance) ==
    BKFuzzy(Build(kind), IF ns = <<>> THEN <<>> ELSE <<1, 1>>, key, distance)
FuzzySearchDistanceOf(ns, kind, key, distance) ==
    BKFuzzy(Build(kind), IF ns = <<>> THEN <<>> ELSE <<1>>, key, distance)

\* ------------------------------------------------------------------- state

VARIABLES
    build_metric,   \* BKMap.build_metric: the kind of metric the map builds
    metric,         \* BKMap.metric: the state of the map's own metric
    nodes,          \* the arena of the tree; BKMap.root is node 1
    fuzzy,          \* Option<BKFuzzy>: the search borrowing the map, if any
    yielded,        \* the items the search has returned so far, in order
    exhausted,      \* the search's last next call returned None
    pops,           \* the nodes the search has popped so far, in order, each
                    \* with its distance and the children it pushed
    second,         \* Option: a second search borrowing the map, with what
                    \* it has yielded and whether it is exhausted
    history,        \* the insertion calls made so far: [op, key, value]
    call,           \* Option: the modify calls of the insertion call that
                    \* has just returned
    lm,             \* a stand-alone LevenshteinMetric: its cache
    lmCall          \* Option: the last distance call on lm, its result, and
                    \* the length of the cache before it

vars == <<build_metric, metric, nodes, fuzzy, yielded, exhausted, pops,
          second, history, call, lm, lmCall>>

mapVars == <<build_metric, metric, nodes, fuzzy, yielded, exhausted, pops,
             second, history, call>>

\* BKMap.root: Option of the root's index
root == IF nodes = <<>> THEN None ELSE Some(1)

\* BKMap::len
MapLen == IF root = None THEN 0 ELSE NodeLen(nodes, root[1])

\* BKMap::is_empty
IsEmpty == root = None

\* BKMap::capacity
Capacity == IF root = None THEN 0 ELSE NodeCapacity(nodes, root[1])

\* BKMap::with_metric for either kind of metric, and Levenshtein::build for
\* the stand-alone metric.
Init ==
    /\ build_metric \in MetricKinds
    /\ metric = Build(build_metric)
    /\ nodes = <<>>
    /\ fuzzy = None
    /\ yielded = <<>>
    /\ exhausted = FALSE
    /\ pops = <<>>
    /\ second = None
    /\ history = <<>>
    /\ call = None
    /\ lm = LevBuild
    /\ lmCall = None

\* ----------------------------------------------------------------- actions

\* An insertion call with the modify closure c.  The map is borrowed
\* mutably, so no search is alive.
InsertCall(key, value, c) ==
    /\ fuzzy = None
    /\ Len(history) < MaxInserts
    /\ LET r == InsertAndModify(nodes, build_metric, metric, key, value, c)
       IN  /\ nodes' = r.nodes
           /\ metric' = r.metric
           /\ call' = Some(r.calls)
    /\ history' = Append(history, [op |-> c.op, key |-> key, value |-> value])
    /\ UNCHANGED <<build_metric, fuzzy, yielded, exhausted, pops, second,
                   lm, lmCall>>

\* BKMap::insert(key, value)
Insert(key, value) ==
    InsertCall(key, value, ModifyOf("insert"))

\* BKMap::insert_or_modify(key, value, modify) with the caller's sum closure
InsertOrModify(key, value) ==
    InsertCall(key, value, ModifyOf("insert_or_modify"))

\* BKMap::insert_and_modify(key, value, modify) with the caller's count
\* closure
InsertAndModifyCall(key, value) ==
    InsertCall(key, value, ModifyOf("insert_and_modify"))

Next ==
    \/ \E key \in Keys, value \in Values : Insert(key, value)
    \/ \E key \in Keys, value \in Values : InsertOrModify(key, value)
    \/ \E key \in Keys, value \in Values : InsertAndModifyCall(key, value)

\* A map, and the insertion calls made on it.
Spec == Init /\ [][Next]_vars

\* ------------------------------------------------- maps built by insertions

\* The map after the insertion calls h[i..] on the map (ns, m).
RECURSIVE Replay(_, _, _, _, _)
Replay(kind, ns, m, h, i) ==
    IF i > Len(h) THEN [nodes |-> ns, metric |-> m]
    ELSE LET r == InsertAndModify(ns, kind, m, h[i].key, h[i].value,
                                  ModifyOf(h[i].op))
         IN  Replay(kind, r.nodes, r.metric, h, i + 1)

\* The three insertion operations, in the order they take turns in.
Ops == <<"insert", "insert_or_modify", "insert_and_modify">>

\* Insertion calls with the given keys: the operations take turns, starting
\* after the first o of them, and the values go round 1..MaxVal.
CallsOf(keys, o) ==
    [i \in 1..Len(keys) |->
        [op |-> Ops[((i - 1 + o) % Len(Ops)) + 1], key |-> keys[i],
         value |-> ((i - 1) % MaxVal) + 1]]

\* A map with a metric of one of the kinds after up to most insertion calls,
\* the first of them one of the operations firsts.
InitBuiltOf(kinds, firsts, most) ==
    /\ build_metric \in kinds
    /\ history \in {CallsOf(keys, o) : keys \in SeqsUpTo(most, Keys),
                                       o \in firsts}
    /\ LET r == Replay(build_metric, <<>>, Build(build_metric), history, 1)
       IN  /\ nodes = r.nodes
           /\ metric = r.metric
    /\ fuzzy = None
    /\ yielded = <<>>
    /\ exhausted = FALSE
    /\ pops = <<>>
    /\ second = None
    /\ call = None
    /\ lm = LevBuild
    /\ lmCall = None

\* A map of either kind after up to MaxInserts insertion calls.
InitBuilt == InitBuiltOf(MetricKinds, 0..(Len(Ops) - 1), MaxInserts)

\* ------------------------------------------------------------- the searches

\* BKMap::fuzzy_search_distance(key, distance)
FuzzySearchDistance(key, distance) ==
    /\ fuzzy = None
    /\ fuzzy' = Some(FuzzySearchDistanceOf(nodes, build_metric, key, distance))
    /\ yielded' = <<>>
    /\ exhausted' = FALSE
    /\ pops' = <<>>
    /\ UNCHANGED <<build_metric, metric, nodes, second, history, call, lm,
                   lmCall>>

\* BKFuzzy::next
FuzzyNext ==
    /\ fuzzy # None
    /\ LET r == FuzzyNextOf(nodes, build_metric, fuzzy[1])
       IN  /\ fuzzy' = Some(r.fuzzy)
           /\ yielded' = yielded \o r.item
           /\ exhausted' = (r.item = None)
           /\ pops' = pops \o r.visits
    /\ UNCHANGED <<build_metric, metric, nodes, second, history, call, lm,
                   lmCall>>

\* The search is dropped, which ends its borrow of the map.
FuzzyDrop ==
    /\ fuzzy # None
    /\ fuzzy' = None
    /\ yielded' = <<>>
    /\ exhausted' = FALSE
    /\ pops' = <<>>
    /\ UNCHANGED <<build_metric, metric, nodes, second, history, call, lm,
                   lmCall>>

NextSearch ==
    \/ \E key \in Keys, distance \in Radii : FuzzySearchDistance(key, distance)
    \/ FuzzyNext
    \/ FuzzyDrop

\* The searches of a built map.
SpecSearch == InitBuilt /\ [][NextSearch]_vars

\* ----------------------------------------------------------- shrink_to_fit

\* Vec::shrink_to_fit on a vector of length len and capacity cap: the
\* capacities it may have afterwards.  The allocator decides how much of the
\* excess it keeps.  The variant may add capacity.
ShrunkCapsReserve(len, cap) == len..(cap + 1)
ShrunkCaps(len, cap) == len..cap

\* BKMap::shrink_to_fit: Vec::shrink_to_fit on every children vector.
ShrinkToFit ==
    /\ fuzzy = None
    /\ \E caps \in [1..Len(nodes) -> 0..(MaxInserts + 4)] :
          /\ \A i \in 1..Len(nodes) :
                caps[i] \in ShrunkCaps(Len(nodes[i].children), nodes[i].cap)
          /\ nodes' = [i \in 1..Len(nodes) |-> [nodes[i] EXCEPT !.cap = caps[i]]]
    /\ UNCHANGED <<build_metric, metric, fuzzy, yielded, exhausted, pops,
                   second, history, call, lm, lmCall>>

NextShrink == ShrinkToFit

\* The shrink_to_fit calls on a built map.
SpecShrink == InitBuilt /\ [][NextShrink]_vars

\* ------------------------------------------- the stand-alone metric's calls

\* LevenshteinMetric::distance(a, b) on the stand-alone metric
LmDistance(a, b) ==
    /\ LET r == LevDistance(lm, a, b)
       IN  /\ lm' = r.cache
           /\ lmCall' = Some([a |-> a, b |-> b, result |-> r.result,
                             before |-> Len(lm)])
    /\ UNCHANGED mapVars

InitMetric == Init /\ build_metric = "Levenshtein"

NextMetric == \E a \in Strs, b \in Strs : LmDistance(a, b)

\* A LevenshteinMetric, and the distance calls made on it.
SpecMetric == InitMetric /\ [][NextMetric]_vars

\* ------------------------------------------------------- reference notions

\* The classic edit distance between the first i elements of a and the first
\* j elements of b: the least number of insertions, deletions and
\* substitutions, by the textbook recurrence.
RECURSIVE EditPrefix(_, _, _, _)
EditPrefix(a, b, i, j) ==
    IF i = 0 THEN j
    ELSE IF j = 0 THEN i
    ELSE Min(Min(EditPrefix(a, b, i - 1, j) + 1, EditPrefix(a, b, i, j - 1) + 1),
             EditPrefix(a, b, i - 1, j - 1) + (IF a[i] = b[j] THEN 0 ELSE 1))

EditDistance(a, b) == EditPrefix(a, b, Len(a), Len(b))

\* The distance between a and b under the map's metric, by its definition.
TrueDistance(a, b) ==
    IF build_metric = "Levenshtein" THEN EditDistance(a, b)
    ELSE IF Len(a) >= Len(b) THEN Len(a) - Len(b) ELSE Len(b) - Len(a)

Range(s) == {s[i] : i \in 1..Len(s)}

\* What a linear scan over all stored entries reports for the query q and
\* the radius r.
BruteForce(q, r) ==
    {[dist |-> TrueDistance(q, nodes[i].key), node |-> i,
      key |-> nodes[i].key, value |-> nodes[i].value] :
        i \in {j \in 1..Len(nodes) : TrueDistance(q, nodes[j].key) <= r}}

\* ------------------------------------------------------------------ claims

\* C1: a radius search drained to its end has yielded exactly the stored
\* entries within the radius of the query, the set a linear scan over all
\* stored entries gives, each with its true distance to the query.
C1_SearchIsBruteForce ==
    (fuzzy # None /\ exhausted) =>
        Range(yielded) = BruteForce(fuzzy[1].key, fuzzy[1].distance)

\* A drained search of a three-entry Levenshtein map that yielded some
\* entries and left others out.
C1_Witness ==
    /\ fuzzy # None /\ exhausted
    /\ build_metric = "Levenshtein"
    /\ Len(nodes) = 3
    /\ Len(yielded) \in {1, 2}
    /\ fuzzy[1].distance = 1

\* C2: in every state of the map the children of every node are strictly
\* ascending by edge distance, so no two siblings share an edge distance: an
\* insertion at the edge distance of an existing child went into that child.
C2_ChildrenStrictlyAscending ==
    \A i \in 1..Len(nodes) :
        \A p \in 1..(Len(nodes[i].children) - 1) :
            nodes[nodes[i].children[p]].dist < nodes[nodes[i].children[p + 1]].dist

\* The root has two children, and the one inserted later comes first.
C2_Witness ==
    /\ Len(nodes) = 3
    /\ nodes[1].children = <<3, 2>>
    /\ nodes[3].dist < nodes[2].dist

\* The insertion call a step makes, when it makes one.
Inserting == Len(history') = Len(history) + 1
TheCall == history'[Len(history')]

\* An entry stored before the step is at distance 0 from the inserted key.
Collides ==
    \E i \in 1..Len(nodes) : TrueDistance(TheCall.key, nodes[i].key) = 0

\* C3: every insertion call makes exactly one modify call; its subject is the
\* value the call leaves stored; its other argument is Some(incoming value)
\* if and only if an entry stored before the call is at distance 0 from the
\* inserted key, and None otherwise.
C3_ModifyExactlyOnce ==
    [][Inserting =>
        /\ call' # None
        /\ Len(call'[1]) = 1
        /\ LET c == call'[1][1]
           IN  /\ c.node \in 1..Len(nodes')
               /\ nodes'[c.node].value = c.after
               /\ c.other # None <=> Collides
               /\ c.other # None => c.other = Some(TheCall.value)
               /\ c.other = None => c.before = TheCall.value
               /\ c.other # None =>
                     /\ c.node \in 1..Len(nodes)
                     /\ c.before = nodes[c.node].value
                     /\ TrueDistance(TheCall.key, nodes[c.node].key) = 0]_vars

\* An insert_and_modify call with a key that is stored nowhere has collided
\* with a child of the root, under the metric that is 0 between different
\* keys, and its one modify call got Some of the incoming value.
C3_Witness ==
    /\ Len(history) = 3
    /\ history[3].op = "insert_and_modify"
    /\ Len(nodes) = 2
    /\ build_metric = "LenDiff"
    /\ call # None
    /\ Len(call[1]) = 1
    /\ call[1][1].other = Some(history[3].value)
    /\ call[1][1].node = 2
    /\ \A i \in 1..2 : nodes[i].key # history[3].key

\* The history entries whose key is at distance 0 from k.
CallsAt(k) ==
    {i \in 1..Len(history) : TrueDistance(history[i].key, k) = 0}

\* C4: when insert(k, v) is the one insertion call with a key at distance 0
\* from k, a radius search for k with radius 0, drained to its end, has
\* yielded exactly one item, (0, k, v).
C4_RoundTrip ==
    (fuzzy # None /\ exhausted /\ fuzzy[1].distance = 0) =>
        \A i \in 1..Len(history) :
            (history[i].key = fuzzy[1].key /\ history[i].op = "insert"
             /\ CallsAt(fuzzy[1].key) = {i}) =>
                /\ Len(yielded) = 1
                /\ yielded[1].dist = 0
                /\ yielded[1].key = history[i].key
                /\ yielded[1].value = history[i].value

\* A radius-0 search for the key inserted last, stored two levels below the
\* root of a three-entry map, has ended with one item.
C4_Witness ==
    /\ fuzzy # None /\ exhausted /\ fuzzy[1].distance = 0
    /\ Len(nodes) = 3
    /\ nodes[2].children = <<3>>
    /\ fuzzy[1].key = nodes[3].key
    /\ CallsAt(fuzzy[1].key) = {3}
    /\ history[3].op = "insert"
    /\ Len(yielded) = 1

\* The merge calls made by the insertion call that has just returned.
RECURSIVE MergesOf(_)
MergesOf(calls) ==
    IF calls = <<>> THEN <<>> ELSE Head(calls).merges \o MergesOf(Tail(calls))

\* Every stored entry except those in the set changed is as it was.
OthersUnchanged(changed) ==
    \A i \in 1..Len(nodes) : i \notin changed => nodes'[i] = nodes[i]

\* C5: insert(key, value) overwrites the value of the entry at distance 0
\* from key when there is one, keeping its key and its place, and otherwise
\* stores value as a new entry; insert_or_modify(key, value, merge) calls
\* merge(existing, value) on such a collision only, and otherwise stores
\* value as a new entry without calling merge.
C5_InsertAndInsertOrModify ==
    [][(Inserting /\ TheCall.op \in {"insert", "insert_or_modify"}) =>
        LET hit == {i \in 1..Len(nodes) :
                        TrueDistance(TheCall.key, nodes[i].key) = 0}
            merges == MergesOf(call'[1])
        IN  IF hit # {}
            THEN /\ Len(nodes') = Len(nodes)
                 /\ Cardinality(hit) = 1
                 /\ OthersUnchanged(hit)
                 /\ \A i \in hit :
                       /\ nodes'[i] = [nodes[i] EXCEPT !.value = nodes'[i].value]
                       /\ TheCall.op = "insert" =>
                             nodes'[i].value = TheCall.value
                       /\ TheCall.op = "insert_or_modify" =>
                             /\ merges = <<<<nodes[i].value, TheCall.value>>>>
                             /\ nodes'[i].value =
                                   Min(nodes[i].value + TheCall.value, MaxVal)
            ELSE /\ Len(nodes') = Len(nodes) + 1
                 /\ nodes'[Len(nodes')].key = TheCall.key
                 /\ nodes'[Len(nodes')].value = TheCall.value
                 /\ TheCall.op = "insert_or_modify" => merges = <<>>]_vars

\* An insert has overwritten the value of a stored entry whose key differs
\* from the inserted one, and the stored key is still there.
C5_Witness ==
    /\ Len(history) = 3
    /\ history[3].op = "insert"
    /\ Len(nodes) = 2
    /\ call # None
    /\ call[1][1].other # None
    /\ call[1][1].node = 2
    /\ call[1][1].before # history[3].value
    /\ nodes[2].value = history[3].value
    /\ nodes[2].key # history[3].key

\* The classes of keys inserted so far, two keys being in one class when
\* they are at distance 0.
Classes ==
    {{history[j].key : j \in CallsAt(history[i].key)} : i \in 1..Len(history)}

\* C6: len() is the number of distance-0 classes among the keys inserted so
\* far, and is_empty() holds exactly when len() is 0.
C6_LenCountsClasses ==
    /\ MapLen = Cardinality(Classes)
    /\ IsEmpty <=> MapLen = 0

\* Three insertions of three different keys, two of them in one class: a
\* map of two entries.
C6_Witness ==
    /\ Len(history) = 3
    /\ Cardinality({history[i].key : i \in 1..3}) = 3
    /\ MapLen = 2
    /\ nodes[1].children = <<2>>

\* The number of child nodes in the whole tree.
RECURSIVE ChildCount(_, _)
ChildCount(ns, i) ==
    IF i = 0 THEN 0 ELSE Len(ns[i].children) + ChildCount(ns, i - 1)

\* C7: shrink_to_fit leaves len(), every stored key, value and edge distance
\* and every children list as they were, and the capacity() after it is at
\* most the one before it and at least the number of child nodes.
C7_ShrinkToFitFrame ==
    [][/\ MapLen' = MapLen
       /\ Len(nodes') = Len(nodes)
       /\ \A i \in 1..Len(nodes) :
             /\ nodes'[i].key = nodes[i].key
             /\ nodes'[i].value = nodes[i].value
             /\ nodes'[i].dist = nodes[i].dist
             /\ nodes'[i].children = nodes[i].children
       /\ Capacity' <= Capacity
       /\ Capacity' >= ChildCount(nodes', Len(nodes'))]_vars

\* A three-entry map after shrink_to_fit has left no excess capacity at all.
C7_Witness ==
    /\ Len(nodes) = 3
    /\ Capacity = 2
    /\ \E i \in 1..3 : nodes[i].children # <<>> /\ nodes[i].cap = Len(nodes[i].children)

\* C8: LevenshteinMetric::distance(a, b) is the classic edit distance of a
\* and b; in particular it is 0 for ("", ""), 3 for ("", "abc") and for
\* ("abc", ""), 0 for ("abc", "abc") and 3 for ("kitten", "sitting").
C8_DistanceIsEditDistance ==
    lmCall # None =>
        LET c == lmCall[1]
        IN  /\ c.result = EditDistance(c.a, c.b)
            /\ (c.a = <<>> /\ c.b = <<>>) => c.result = 0
            /\ (c.a = <<>> /\ c.b = StrAbc) => c.result = 3
            /\ (c.a = StrAbc /\ c.b = <<>>) => c.result = 3
            /\ (c.a = StrAbc /\ c.b = StrAbc) => c.result = 0
            /\ (c.a = StrKitten /\ c.b = StrSitting) => c.result = 3

\* distance("kitten", "sitting") has returned 3.
C8_Witness ==
    /\ lmCall # None
    /\ lmCall[1].a = StrKitten
    /\ lmCall[1].b = StrSitting
    /\ lmCall[1].result = 3

\* C9: whatever calls were made on a metric before, distance(a, b) returns
\* what it returns on a freshly built metric, and distance(a, a) is 0.
C9_DistanceIgnoresEarlierCalls ==
    lmCall # None =>
        LET c == lmCall[1]
        IN  /\ c.result = LevDistance(LevBuild, c.a, c.b).result
            /\ c.a = c.b => c.result = 0

\* A call on two different non-empty sequences has returned, made on a metric
\* whose cache was longer than b from an earlier call.
C9_Witness ==
    /\ lmCall # None
    /\ lmCall[1].before > Len(lmCall[1].b)
    /\ Len(lmCall[1].b) > 0
    /\ Len(lmCall[1].a) > 0
    /\ lmCall[1].result > 0

\* The items a search of the map for q with radius r yields when drained.
SearchResult(q, r) ==
    Range(Collect(nodes, build_metric,
                  FuzzySearchDistanceOf(nodes, build_metric, q, r)))

\* C10: whenever r1 <= r2, every item the search for q with radius r1 yields
\* is yielded, with the same distance, by the search with radius r2.  The
\* drained search of the state is compared with the searches for the same
\* query with every smaller and every larger radius.
C10_RadiusMonotone ==
    (fuzzy # None /\ exhausted) =>
        \A r \in Radii :
            /\ r <= fuzzy[1].distance =>
                  SearchResult(fuzzy[1].key, r) \subseteq Range(yielded)
            /\ fuzzy[1].distance <= r =>
                  Range(yielded) \subseteq SearchResult(fuzzy[1].key, r)

\* A drained search with radius 1 has yielded more than the search with
\* radius 0 for the same query and less than the one with the largest radius.
C10_Witness ==
    /\ fuzzy # None /\ exhausted
    /\ fuzzy[1].distance = 1
    /\ SearchResult(fuzzy[1].key, 0) # Range(yielded)
    /\ SearchResult(fuzzy[1].key, UsizeMax) # Range(yielded)
    /\ SearchResult(fuzzy[1].key, 0) # {}

\* The least total cost of turning the first i elements of a into the first
\* j elements of b when an insertion costs c[1], a deletion c[2] and a
\* substitution c[3].
RECURSIVE WeightedPrefix(_, _, _, _, _)
WeightedPrefix(c, a, b, i, j) ==
    IF i = 0 THEN j * c[1]
    ELSE IF j = 0 THEN i * c[2]
    ELSE Min(Min(WeightedPrefix(c, a, b, i - 1, j) + c[2],
                 WeightedPrefix(c, a, b, i, j - 1) + c[1]),
             WeightedPrefix(c, a, b, i - 1, j - 1)
                 + (IF a[i] = b[j] THEN 0 ELSE c[3]))

WeightedEditDistance(c, a, b) == WeightedPrefix(c, a, b, Len(a), Len(b))

\* The costs <<I, D, S>> the claim names: the default, and I = 2, D = 1,
\* S = 5.
UnitCosts == <<1, 1, 1>>
CostConfigs == {UnitCosts, <<2, 1, 5>>}

BruteTop(q, n) ==
    {i \in 1..Len(nodes) :
        Cardinality({j \in 1..Len(nodes) :
                        TrueDistance(q, nodes[j].key)
                            < TrueDistance(q, nodes[i].key)}) < n}

\* The distances of the items are in ascending order.
Ascending(items) ==
    \A i \in 1..Len(items), j \in 1..Len(items) :
        i < j => items[i].dist <= items[j].dist

YieldedNodes == {yielded[i].node : i \in 1..Len(yielded)}

RECURSIVE Subtree(_, _)
Subtree(ns, i) ==
    {i} \cup UNION {Subtree(ns, ns[i].children[k]) : k \in 1..Len(ns[i].children)}

\* distance(a, b) as a metric the map builds computes it.
DistanceOf(a, b) ==
    Distance(build_metric, Build(build_metric), a, b).result

\* C13: for every node p and every child c of p, c's edge distance is
\* positive, and every node of the subtree rooted at c, c included, has a key
\* whose distance to p's key, distance(that key, p.key), is c's edge distance.
C13_SubtreeAtEdgeDistance ==
    \A p \in 1..Len(nodes) :
        \A k \in 1..Len(nodes[p].children) :
            LET c == nodes[p].children[k]
            IN  /\ nodes[c].dist > 0
                /\ \A x \in Subtree(nodes, c) :
                      DistanceOf(nodes[x].key, nodes[p].key) = nodes[c].dist

\* The root has a child with a child of its own: the grandchild is in the
\* child's subtree, at the child's edge distance from the root's key.
C13_Witness ==
    /\ Len(history) = 3
    /\ Len(nodes) = 3
    /\ nodes[1].children = <<2>>
    /\ nodes[2].children = <<3>>
    /\ build_metric = "Levenshtein"
    /\ DistanceOf(nodes[3].key, nodes[1].key) = nodes[2].dist

\* The sequence s without its element at position at.
Without(s, at) == SubSeq(s, 1, at - 1) \o SubSeq(s, at + 1, Len(s))

\* The stored entries whose value the step changes.
ValueChanged == {i \in 1..Len(nodes) : nodes'[i].value # nodes[i].value}

\* The new node is a leaf in p's children, between a sibling with a smaller
\* and a sibling with a larger edge distance, and p's other children are
\* where they were.
LeafAddedUnder(p, new) ==
    \E at \in 1..Len(nodes'[p].children) :
        /\ nodes'[p].children[at] = new
        /\ Without(nodes'[p].children, at) = nodes[p].children
        /\ at > 1 => nodes'[nodes'[p].children[at - 1]].dist < nodes'[new].dist
        /\ at < Len(nodes'[p].children) =>
              nodes'[new].dist < nodes'[nodes'[p].children[at + 1]].dist

\* C14: an insertion removes and moves no stored node and changes no stored
\* key or edge distance.  On a collision at distance 0 the structure is as it
\* was and only the colliding node's value may differ; otherwise one leaf is
\* added, as the root of an empty map or into one children list at its sorted
\* position, and every stored key, value and parent-child relation is as it
\* was.
C14_InsertionFrame ==
    [][Inserting =>
        /\ Len(nodes') >= Len(nodes)
        /\ \A i \in 1..Len(nodes) :
              /\ nodes'[i].key = nodes[i].key
              /\ nodes'[i].dist = nodes[i].dist
        /\ IF Collides
           THEN /\ Len(nodes') = Len(nodes)
                /\ \A i \in 1..Len(nodes) :
                      nodes'[i].children = nodes[i].children
                /\ Cardinality(ValueChanged) <= 1
                /\ \A i \in ValueChanged :
                      TrueDistance(TheCall.key, nodes[i].key) = 0
           ELSE LET new == Len(nodes) + 1
                IN  /\ Len(nodes') = new
                    /\ nodes'[new].key = TheCall.key
                    /\ nodes'[new].children = <<>>
                    /\ ValueChanged = {}
                    /\ nodes # <<>> =>
                          \E p \in 1..Len(nodes) :
                              /\ LeafAddedUnder(p, new)
                              /\ \A i \in 1..Len(nodes) :
                                    i # p => nodes'[i].children = nodes[i].children
       ]_vars

\* The third insertion has put its leaf in front of the root's other child.
C14_Witness ==
    /\ Len(history) = 3
    /\ Len(nodes) = 3
    /\ nodes[1].children = <<3, 2>>
    /\ call # None
    /\ call[1][1].other = None

\* The children of node i whose edge distance e satisfies
\* max(0, d - radius) <= e <= min(d + radius, UsizeMax), in the order they
\* are stored in, by testing every child.
ChildrenInInterval(i, d, radius) ==
    LET lo == IF d >= radius THEN d - radius ELSE 0
        hi == IF d + radius >= UsizeMax THEN UsizeMax ELSE d + radius
        In(c) == lo <= nodes[c].dist /\ nodes[c].dist <= hi
    IN  SelectSeq(nodes[i].children, In)

\* C15: when the search pops a node at distance d from the query, the
\* children it pushes are exactly those whose edge distance e satisfies
\* max(0, d - radius) <= e <= d + radius, the lower end saturating at 0 and the
\* upper end at the largest usize; skipping and then taking over the sorted
\* children selects what testing every child against the interval selects.
C15_PushedIsInterval ==
    \A k \in 1..Len(pops) :
        pops[k].pushed =
            ChildrenInInterval(pops[k].node, pops[k].dist, fuzzy[1].distance)

\* A search with the largest radius has popped a node at a positive distance,
\* so that d + radius exceeds the largest usize, and has pushed a child.
C15_Witness ==
    /\ fuzzy # None
    /\ fuzzy[1].distance = UsizeMax
    /\ pops # <<>>
    /\ pops[1].dist > 0
    /\ pops[1].pushed # <<>>

\* A search has popped a node at a distance below its radius, so that
\* d - radius stops at 0, and has left out a child above the interval.
C15_LowerEndAtZero ==
    /\ fuzzy # None
    /\ pops # <<>>
    /\ pops[1].dist < fuzzy[1].distance
    /\ pops[1].pushed # <<>>
    /\ Len(pops[1].pushed) < Len(nodes[pops[1].node].children)

\* distance(a, b) as the stand-alone metric computes it on its next call.
LmResult(a, b) == LevDistance(lm, a, b).result

\* C16: the unit-cost LevenshteinMetric is a metric.  After distance(a, b)
\* has returned, distance(b, a) returns the same; the result is 0 if and only
\* if a = b; and for every third sequence c,
\* distance(a, c) <= distance(a, b) + distance(b, c).
C16_MetricAxioms ==
    lmCall # None =>
        LET a == lmCall[1].a
            b == lmCall[1].b
            dab == lmCall[1].result
        IN  /\ LmResult(b, a) = dab
            /\ (dab = 0) <=> (a = b)
            /\ \A c \in Strs : LmResult(a, c) <= dab + LmResult(b, c)

\* distance has returned 2 for two different sequences of different lengths
\* for which a third sequence lies strictly between them.
C16_Witness ==
    /\ lmCall # None
    /\ lmCall[1].a # lmCall[1].b
    /\ Len(lmCall[1].a) < Len(lmCall[1].b)
    /\ lmCall[1].result = 2
    /\ \E c \in Strs :
          /\ LmResult(lmCall[1].a, c) = 1
          /\ LmResult(c, lmCall[1].b) = 1

\* No element occurs twice in the sequence s.
Distinct(s) == \A i \in 1..Len(s), j \in 1..Len(s) : i # j => s[i] # s[j]

\* The nodes the visits v pushed, in order; the root, node 1, is pushed when
\* the search is made.
RECURSIVE PushedBy(_)
PushedBy(v) == IF v = <<>> THEN <<>> ELSE Head(v).pushed \o PushedBy(Tail(v))

\* C17: a radius search over n stored entries pushes and pops every node at
\* most once, yields no entry twice, and has returned None after at most n
\* node visits; once next has returned None every later call returns None and
\* visits nothing; on an empty map the first call returns None.
C17_FiniteAndFused ==
    [][fuzzy' # None =>
        /\ Distinct([k \in 1..Len(pops') |-> pops'[k].node])
        /\ Distinct(<<1>> \o PushedBy(pops'))
        /\ Distinct([k \in 1..Len(yielded') |-> yielded'[k].node])
        /\ Len(pops') <= Len(nodes)
        /\ exhausted' => fuzzy'[1].stack = <<>>
        /\ (fuzzy # None /\ exhausted) =>
              /\ exhausted'
              /\ yielded' = yielded
              /\ pops' = pops
        /\ (fuzzy # None /\ nodes = <<>>) =>
              /\ exhausted'
              /\ yielded' = <<>>
              /\ pops' = <<>>
       ]_vars

\* A search over three entries has returned None after visiting all three,
\* one of them without yielding it.
C17_Witness ==
    /\ fuzzy # None
    /\ exhausted
    /\ Len(nodes) = 3
    /\ Len(pops) = 3
    /\ Len(yielded) = 2

\* --------------------------------------------- two searches over one map

\* BKMap::fuzzy_search_distance(key, distance) while another search borrows
\* the map: both borrow it immutably.
SecondSearch(key, distance) ==
    /\ second = None
    /\ second' = Some([fuzzy |-> FuzzySearchDistanceOf(nodes, build_metric,
                                                       key, distance),
                       yielded |-> <<>>, exhausted |-> FALSE])
    /\ UNCHANGED <<build_metric, metric, nodes, fuzzy, yielded, exhausted,
                   pops, history, call, lm, lmCall>>

\* BKFuzzy::next on the second search.  The variant computes the distances
\* with the map's metric instead of the search's own.
SecondNextOnMapMetric ==
    /\ second # None
    /\ LET r == FuzzyNextOf(nodes, build_metric,
                            [second[1].fuzzy EXCEPT !.metric = metric])
       IN  /\ second' = Some([fuzzy |-> r.fuzzy,
                              yielded |-> second[1].yielded \o r.item,
                              exhausted |-> (r.item = None)])
           /\ metric' = r.fuzzy.metric
    /\ UNCHANGED <<build_metric, nodes, fuzzy, yielded, exhausted, pops,
                   history, call, lm, lmCall>>

SecondNext ==
    /\ second # None
    /\ LET r == FuzzyNextOf(nodes, build_metric, second[1].fuzzy)
       IN  second' = Some([fuzzy |-> r.fuzzy,
                           yielded |-> second[1].yielded \o r.item,
                           exhausted |-> (r.item = None)])
    /\ UNCHANGED <<build_metric, metric, nodes, fuzzy, yielded, exhausted,
                   pops, history, call, lm, lmCall>>

\* The second search is dropped.
SecondDrop ==
    /\ second # None
    /\ second' = None
    /\ UNCHANGED <<build_metric, metric, nodes, fuzzy, yielded, exhausted,
                   pops, history, call, lm, lmCall>>

\* A map with the Levenshtein metric after up to MaxTwoInserts insertion
\* calls.
InitTwo == InitBuiltOf({"Levenshtein"}, {0}, MaxTwoInserts)

NextTwo ==
    \/ \E key \in Keys, distance \in Radii : FuzzySearchDistance(key, distance)
    \/ FuzzyNext
    \/ FuzzyDrop
    \/ \E key \in Keys, distance \in Radii : SecondSearch(key, distance)
    \/ SecondNext
    \/ SecondDrop

\* Two searches of a built map, their next calls interleaved.
SpecTwo == InitTwo /\ [][NextTwo]_vars

\* What the search for q with the number r yields, in order, when it runs
\* alone on the map.
Alone(q, r) ==
    Collect(nodes, build_metric, FuzzySearchDistanceOf(nodes, build_metric, q, r))

\* The items got are the first ones of all, and all of them once done.
PrefixOf(got, done, all) ==
    /\ Len(got) <= Len(all)
    /\ got = SubSeq(all, 1, Len(got))
    /\ done => got = all

\* C18: each search has its own stack and its own freshly built metric and
\* changes neither the map nor the map's metric: however the next calls of
\* two searches over one map are interleaved, each yields the sequence it
\* yields when run alone, and the map is as the insertions left it.
C18_SearchesIndependent ==
    /\ fuzzy # None =>
          PrefixOf(yielded, exhausted, Alone(fuzzy[1].key, fuzzy[1].distance))
    /\ second # None =>
          PrefixOf(second[1].yielded, second[1].exhausted,
                   Alone(second[1].fuzzy.key, second[1].fuzzy.distance))
    /\ LET r == Replay(build_metric, <<>>, Build(build_metric), history, 1)
       IN  /\ nodes = r.nodes
           /\ metric = r.metric

\* Two searches for different keys are both under way on a map of two
\* entries: each has yielded an item and neither is done.
C18_Witness ==
    /\ fuzzy # None
    /\ second # None
    /\ Len(nodes) = 2
    /\ fuzzy[1].key # second[1].fuzzy.key
    /\ Len(yielded) = 1
    /\ Len(second[1].yielded) = 1
    /\ fuzzy[1].stack # <<>>
    /\ second[1].fuzzy.stack # <<>>
    /\ ~exhausted
    /\ ~second[1].exhausted

\* ------------------------------------- searches under a degenerate metric

\* A map with one of the degenerate metrics after up to MaxInserts insertion calls.
InitSkewed == InitBuiltOf(SkewedKinds, 0..(Len(Ops) - 1), MaxInserts)

\* The searches of a map whose metric is not a metric.
SpecSkewed == InitSkewed /\ [][NextSearch]_vars

\* C19: under a metric that is not symmetric or breaks the triangle
\* inequality, a search may leave entries out but makes none up: every item (d, key, value) it yields is a stored entry,
\* d is distance(query, key) under that metric, and d is at most the radius.
C19_NothingInvented ==
    \A k \in 1..Len(yielded) :
        LET it == yielded[k]
        IN  /\ it.node \in 1..Len(nodes)
            /\ it.key = nodes[it.node].key
            /\ it.value = nodes[it.node].value
            /\ it.dist = DistanceOf(fuzzy[1].key, it.key)
            /\ it.dist <= fuzzy[1].distance

\* A drained search has yielded an entry and has left out a stored entry
\* that is within the radius of the query.
C19_Witness ==
    /\ fuzzy # None
    /\ exhausted
    /\ yielded # <<>>
    /\ \E i \in 1..Len(nodes) :
          /\ DistanceOf(fuzzy[1].key, nodes[i].key) <= fuzzy[1].distance
          /\ i \notin YieldedNodes

====
